---- MODULE Spec2Model ----
(***************************************************************************)
(* Room event ingestion of the roomserver input API:                       *)
(* roomserver/internal/input/input_events.go                               *)
(*   processRoomEvent, checkForMissingAuthEvents, checkForMissingPrevEvents,*)
(*   calculateAndSetState.                                                 *)
(* Every Process call is a process of its own that walks                   *)
(* processRoomEvent one external call (Store, federation, output sink) at  *)
(* a time.  The Store, the federation API, the auth helpers, the state     *)
(* resolution engine, the forward-extremity updater and the output sink    *)
(* are collaborators outside input_events.go; they are modelled from their *)
(* contracts and every one of their calls may fail.                        *)
(***************************************************************************)
EXTENDS Integers, Sequences, FiniteSets, TLC

\* ---------------------------------------------------------------- bounds
\* Number of Process calls of one behaviour.
MaxCalls == 2

\* ------------------------------------------------------- event universe
\* Room 1 has room version 1 (event IDs assigned by the server), room 2
\* has room version 4 (event IDs derived from the content).
Rooms == {1, 2}
\* Event IDs.  Event 1 has no auth events, 3 is authorised by 1 and 2 by
\* 1 and 3: 1 <- 3 <- 2 is an auth chain whose order is not the order of
\* the IDs.  Event 3 is also a redaction of event 1.
EventIDs == {1, 2, 3}
\* Room 2 is sent event 1 only.
EventIDsOf(r) == IF r = 1 THEN EventIDs ELSE {1}
Calls == 1..MaxCalls
\* The reference hashes an event ID can arrive with.
Hashes == {"H1", "H2"}

\* gomatrixserverlib.Event.AuthEventIDs
AuthEventIDs(n) ==
  IF n = 2 THEN {1, 3} ELSE IF n = 3 THEN {1} ELSE {}

\* gomatrixserverlib.Event.PrevEventIDs
PrevEventIDs(n) ==
  IF n = 2 THEN {3} ELSE IF n = 3 THEN {1} ELSE {}

\* gomatrixserverlib.Event.Redacts
Redacts(n) == IF n = 3 THEN 1 ELSE 0

\* The room version every event of a room is headered with.
RoomVersion(r) == IF r = 1 THEN "1" ELSE "4"

\* gomatrixserverlib.RoomVersion.EventIDFormat
EventIDFormat(v) ==
  IF v \in {"1", "2"} THEN "EventIDFormatV1"
  ELSE IF v = "3" THEN "EventIDFormatV2"
  ELSE IF v \in {"4", "5", "6", "7", "8", "9"} THEN "EventIDFormatV3"
  ELSE "err"

KindNew == "KindNew"
KindOld == "KindOld"
KindOutlier == "KindOutlier"
Kinds == {KindNew, KindOld, KindOutlier}

\* api.InputRoomEvent: Kind and the event (ID and reference hash).  Only
\* the outlier dedup compares hashes, so the other kinds arrive with one
\* hash.  HasState is drawn where it is read, in calculateAndSetState.
Inputs ==
  [kind : {KindOutlier}, id : EventIDs, hash : Hashes]
  \cup [kind : {KindNew, KindOld}, id : EventIDs, hash : {"H1"}]

\* ------------------------------------------------------------- the Store
\* bindings counts the SetState calls that have succeeded for the event.
NoEvent == [stored |-> FALSE, hash |-> "", authNIDs |-> {}, rejected |-> FALSE,
            snapshot |-> 0, bindings |-> 0]

VARIABLES
  events,       \* Store: [room, event ID] -> the stored event row
  snapshots,    \* Store: the StateSnapshotNIDs persisted by AddState
  extremities,  \* Store: room -> forward extremities
  outputLog,    \* output sink: room -> sequence of output entries
  calls,        \* call -> the locals of that processRoomEvent call
  nextCall      \* number of the next Process call

vars == <<events, snapshots, extremities, outputLog, calls, nextCall>>

\* types.EventNID: the Store interns an event ID as a non-zero number;
\* 0 is the zero value a Go map yields for a missing key.
EventNID(n) == n

IsStored(r, n) == events[<<r, n>>].stored

\* Store.EventNIDs: the partial map of the IDs that are stored.
EventNIDs(r, ids) == {n \in ids : IsStored(r, n)}

\* Store.StoreEvent: atomic and idempotent on the event ID.
StoreEvent(ev, r, n, h, authNIDs, isRejected) ==
  IF ev[<<r, n>>].stored THEN ev
  ELSE [ev EXCEPT ![<<r, n>>] =
          [stored |-> TRUE, hash |-> h, authNIDs |-> authNIDs,
           rejected |-> isRejected, snapshot |-> 0, bindings |-> 0]]

\* Store.StoreEvent, redaction pairing: the ID of the event that storing
\* event n redacts (n redacts a stored event, or a stored redaction
\* targets n), 0 for none.  Rejected events take no part in a pairing.
RedactedEventID(ev, r, n, isRejected) ==
  IF isRejected THEN 0
  ELSE IF Redacts(n) # 0 /\ ev[<<r, Redacts(n)>>].stored THEN Redacts(n)
  ELSE IF \E x \in EventIDs : Redacts(x) = n /\ ev[<<r, x>>].stored
                              /\ ~ev[<<r, x>>].rejected THEN n
  ELSE 0

\* The redaction event of that pairing, 0 for none.
RedactionEvent(ev, r, n, isRejected) ==
  LET t == RedactedEventID(ev, r, n, isRejected) IN
  IF t = 0 THEN 0
  ELSE IF t = n THEN CHOOSE x \in EventIDs : Redacts(x) = n /\ ev[<<r, x>>].stored
                                             /\ ~ev[<<r, x>>].rejected
  ELSE n

\* Store.AddState: snapshots are content addressed, 0 is "no snapshot".
SnapshotNID(entries) == 1 + Cardinality(entries)

\* gomatrixserverlib.ReverseTopologicalOrdering with
\* TopologicalOrderByAuthEvents: Kahn's algorithm over the auth edges
\* between the events of the input; ancestors come first.  The order of
\* events that no auth edge of the input relates is decided by fields the
\* model does not carry (power level, timestamp), so every such order is
\* a possible result.
RECURSIVE ReverseTopologicalOrdering(_)
ReverseTopologicalOrdering(S) ==
  IF S = {} THEN {<<>>}
  ELSE LET noIncoming == {x \in S : \A y \in S : x \notin AuthEventIDs(y)}
       IN UNION {{Append(q, x) : q \in ReverseTopologicalOrdering(S \ {x})}
                 : x \in noIncoming}

\* --------------------------------------------------------- call locals
NoCall == [pc |-> "none", kind |-> KindNew, room |-> 1, id |-> 1, hash |-> "H1",
           hasState |-> FALSE, isRejected |-> FALSE, softfail |-> FALSE,
           authEventNIDs |-> {}, cache |-> {}, fedEvents |-> {},
           fedQueue |-> <<>>, snapshot |-> 0, overwrite |-> FALSE,
           redactedEventID |-> 0, redactionEvent |-> 0, redacted |-> FALSE,
           retID |-> 0, retErr |-> "nil",
           \* what the call has done so far
           known0 |-> FALSE, dedupErr |-> FALSE,
           skipped |-> FALSE, fedQueried |-> FALSE, fedStored |-> {},
           fedMissing |-> FALSE, fedLeft |-> 0, softFailChecked |-> FALSE,
           storeArg |-> "none", stored |-> FALSE, stateErr |-> FALSE,
           failed |-> FALSE, ext0 |-> {},
           \* the rows of the room and the snapshots when the call began
           events0 |-> [n \in EventIDs |-> NoEvent], snapshots0 |-> {},
           fedQueries |-> 0, authChecked |-> FALSE, roomInfoCalled |-> FALSE,
           statePath |-> "none", joined |-> FALSE, memberErr |-> FALSE]

InFlight(c) == calls[c].pc \notin {"none", "done", "retired"}

\* return id, err
Return(l, n, err) == [l EXCEPT !.pc = "done", !.retID = n, !.retErr = err]

\* return "", err after a failed Store, federation or sink call
Fail(l, err) == [l EXCEPT !.pc = "done", !.retID = 0, !.retErr = err,
                          !.failed = TRUE]

Init ==
  /\ events = [k \in Rooms \X EventIDs |-> NoEvent]
  /\ snapshots = {}
  /\ extremities = [r \in Rooms |-> {}]
  /\ outputLog = [r \in Rooms |-> <<>>]
  /\ calls = [c \in Calls |-> NoCall]
  /\ nextCall = 1

\* "processRoomEvent can only be called once at a time".
NoneInFlight == \A c \in Calls : ~InFlight(c)

\* The locals of call c when it enters processRoomEvent; the locals of
\* the calls that have returned are dropped.
Enter(c, r, in, retire) ==
  [d \in Calls |->
     IF d = c
     THEN [NoCall EXCEPT !.pc = "dedup", !.kind = in.kind, !.room = r,
                         !.id = in.id, !.hash = in.hash,
                         !.ext0 = extremities[r],
                         !.known0 = IsStored(r, in.id),
                         !.events0 = [n \in EventIDs |-> events[<<r, n>>]],
                         !.snapshots0 = snapshots]
     ELSE IF calls[d].pc = "done" /\ d \in retire
     THEN [NoCall EXCEPT !.pc = "retired"]
     ELSE calls[d]]

Process(c) ==
  /\ c = nextCall
  /\ nextCall <= MaxCalls
  /\ NoneInFlight
  /\ \E r \in Rooms, in \in Inputs :
       /\ in.id \in EventIDsOf(r)
       /\ calls' = Enter(c, r, in, Calls)
  /\ nextCall' = nextCall + 1
  /\ UNCHANGED <<events, snapshots, extremities, outputLog>>

\* RoomIsFree of an orchestrator that does not serialise.
RoomIsFreeAlways(r) == TRUE

\* The orchestrator runs at most one Process call per room at a time.
RoomIsFree(r) == \A c \in Calls : InFlight(c) => calls[c].room # r

\* The inputs of the calls that run side by side: the KindNew events
\* that write output entries, event 1 and its redaction 3.
RoomInputs == [kind : {KindNew}, id : {1, 3}, hash : {"H1"}]

\* The calls of room r.
CallsOf(r) == {d \in Calls : calls[d].room = r}

\* The orchestrator with one worker per room: a call enters
\* processRoomEvent when no other call of its room is in flight; calls of
\* different rooms run side by side.
ProcessInRoom(c) ==
  /\ c = nextCall
  /\ nextCall <= MaxCalls
  /\ \E r \in Rooms, in \in RoomInputs :
       /\ in.id \in EventIDsOf(r)
       /\ RoomIsFree(r)
       \* what the Store held when the call began is recorded for the
       \* calls that run one at a time only
       /\ calls' = [Enter(c, r, in, CallsOf(r)) EXCEPT
                      ![c].events0 = NoCall.events0,
                      ![c].snapshots0 = NoCall.snapshots0]
  /\ nextCall' = nextCall + 1
  /\ UNCHANGED <<events, snapshots, extremities, outputLog>>

\* AlreadyProcessed without the comparison of the reference hashes.
AlreadyProcessedNoHash(ok, row, version, hash) ==
  ok /\ row.stored /\ EventIDFormat(version) # "err"

\* processRoomEvent, lines 84-98: the event has been processed already.
\* ok: EventsFromIDs returned no error; row: the stored event, if any.
AlreadyProcessed(ok, row, version, hash) ==
  LET idFormat == EventIDFormat(version) IN
  /\ ok
  /\ row.stored
  /\ idFormat # "err"
  /\ IF idFormat = "EventIDFormatV1" THEN hash = row.hash ELSE TRUE

\* processRoomEvent, lines 80-100: the outlier dedup.
Dedup(c) ==
  LET l == calls[c]
      r == l.room
      row == events[<<r, l.id>>]
  IN
  /\ l.pc = "dedup"
  /\ IF l.kind = KindOutlier
     THEN \E ok \in BOOLEAN :
            LET l1 == [l EXCEPT !.dedupErr = ~ok] IN
            calls' = [calls EXCEPT ![c] =
              IF AlreadyProcessed(ok, row, RoomVersion(r), l.hash)
              THEN Return([l1 EXCEPT !.skipped = TRUE], l.id, "nil")
              ELSE [l1 EXCEPT !.pc = "missingAuth"]]
     ELSE calls' = [calls EXCEPT ![c].pc = "missingAuth"]
  /\ UNCHANGED <<events, snapshots, extremities, outputLog, nextCall>>

\* NeedsFederation that asks the peer whatever the Store knows.
NeedsFederationAlways(missingAuthEventIDs) == TRUE

\* checkForMissingAuthEvents, line 271: the federation API is asked when
\* some auth event is missing.
NeedsFederation(missingAuthEventIDs) == missingAuthEventIDs # {}

\* checkForMissingAuthEvents, lines 251-269: which auth events are known.
MissingAuth(c) ==
  LET l == calls[c]
      authEventIDs == AuthEventIDs(l.id)
  IN
  /\ l.pc = "missingAuth"
  /\ IF authEventIDs = {}
     THEN calls' = [calls EXCEPT ![c].pc = "checkAuth"]
     ELSE \E ok \in BOOLEAN :
            LET knownAuthEventNIDs == EventNIDs(l.room, authEventIDs)
                missingAuthEventIDs == authEventIDs \ knownAuthEventNIDs
            IN calls' = [calls EXCEPT ![c] =
                 IF ~ok THEN Fail(l, "r.DB.EventNIDs")
                 ELSE IF ~NeedsFederation(missingAuthEventIDs)
                 THEN [l EXCEPT !.pc = "checkAuth"]
                 ELSE [l EXCEPT !.cache = knownAuthEventNIDs,
                                !.pc = "fedQuery"]]
  /\ UNCHANGED <<events, snapshots, extremities, outputLog, nextCall>>

\* What a peer answers to QueryEventAuthFromFederation: any set of events
\* of the auth DAG, the queried event included (a subset or a superset of
\* the auth chain).
FedResponses == SUBSET {1, 2, 3}

\* The events of a response in the order of their IDs.
RECURSIVE ByID(_)
ByID(S) ==
  IF S = {} THEN <<>>
  ELSE LET x == CHOOSE y \in S : \A z \in S : y <= z
       IN <<x>> \o ByID(S \ {x})

\* FedOrder without the topological sort.
FedOrderUnsorted(res) == {ByID(res)}

\* The order in which the loop of checkForMissingAuthEvents visits the
\* events of a response.
FedOrder(res) == ReverseTopologicalOrdering(res)

\* checkForMissingAuthEvents, lines 271-284: ask the federation API for
\* the auth chain and order what it returns.
FedQuery(c) ==
  LET l == calls[c] IN
  /\ l.pc = "fedQuery"
  /\ \/ calls' = [calls EXCEPT ![c] =
          Fail([l EXCEPT !.fedQueried = TRUE, !.fedQueries = @ + 1,
                         !.cache = {}],
               "r.FSAPI.QueryEventAuthFromFederation")]
     \/ \E res \in FedResponses :
          \E q \in FedOrder(res) :
            calls' = [calls EXCEPT ![c] =
              [l EXCEPT !.fedQueried = TRUE, !.fedQueries = @ + 1,
                        !.fedEvents = res,
                        !.fedQueue = q, !.pc = "fedLoop"]]
  /\ UNCHANGED <<events, snapshots, extremities, outputLog, nextCall>>

\* The locals of checkForMissingAuthEvents are gone when it returns;
\* fedLeft keeps how many of the returned events it has not passed to
\* StoreEvent.
LeaveResolver(l) ==
  [l EXCEPT !.cache = {}, !.fedQueue = <<>>, !.fedEvents = {},
            !.fedStored = {}, !.fedLeft = Len(l.fedQueue)]

\* checkForMissingAuthEvents, lines 308-318: the NIDs collected for the
\* auth events of x.  cache[authEventID] of a missing key is 0, and one
\* NID is appended per auth event ID.
AuthEventNIDsForEvent(cache, x) ==
  [a \in AuthEventIDs(x) |-> IF a \in cache THEN EventNID(a) ELSE 0]

\* checkForMissingAuthEvents, line 316: the test that guards StoreEvent.
HaveAllNIDs(nids, x) ==
  Cardinality(DOMAIN nids) = Cardinality(AuthEventIDs(x))

\* FedIsRejected that marks an event with an unknown auth event.
FedIsRejectedWhenMissing(nids) == \E a \in DOMAIN nids : nids[a] = 0

\* checkForMissingAuthEvents, line 320: the events of the peer are stored
\* as not rejected.
FedIsRejected(nids) == FALSE

\* checkForMissingAuthEvents, lines 285-323: one iteration of the loop
\* over the ordered events.
FedLoop(c) ==
  LET l == calls[c]
      r == l.room
  IN
  /\ l.pc = "fedLoop"
  /\ IF l.fedQueue = <<>>
     THEN /\ calls' = [calls EXCEPT ![c] =
               [LeaveResolver(l) EXCEPT !.pc = "checkAuth"]]
          /\ UNCHANGED events
     ELSE LET x == Head(l.fedQueue)
              neededAuthEventNIDs == AuthEventIDs(x) \ l.cache
          IN \E okNIDs \in BOOLEAN, okStore \in BOOLEAN :
               LET cache1 == l.cache \cup EventNIDs(r, neededAuthEventNIDs)
                   nids == AuthEventNIDsForEvent(cache1, x)
                   l1 == [l EXCEPT !.cache = cache1,
                                   !.fedStored = @ \cup {x},
                                   !.fedMissing =
                                      @ \/ \E a \in DOMAIN nids : nids[a] = 0]
               IN IF neededAuthEventNIDs # {} /\ ~okNIDs
                  THEN /\ okStore
                       /\ calls' = [calls EXCEPT ![c] =
                            Fail(LeaveResolver(l), "r.DB.EventNIDs")]
                       /\ UNCHANGED events
                  ELSE IF ~HaveAllNIDs(nids, x)
                  THEN /\ okStore
                       /\ calls' = [calls EXCEPT ![c] =
                            Return(LeaveResolver(l), 0, "missing auth event NIDs")]
                       /\ UNCHANGED events
                  ELSE IF ~okStore
                  THEN /\ calls' = [calls EXCEPT ![c] =
                            Fail(LeaveResolver(l1), "r.DB.StoreEvent")]
                       /\ UNCHANGED events
                  ELSE /\ events' = StoreEvent(events, r, x, "H1",
                                       {nids[a] : a \in DOMAIN nids},
                                       FedIsRejected(nids))
                       /\ calls' = [calls EXCEPT ![c] =
                            [l1 EXCEPT !.fedQueue = Tail(l.fedQueue)]]
  /\ UNCHANGED <<snapshots, extremities, outputLog, nextCall>>

\* helpers.CheckAuthEvents: resolves the auth event IDs to NIDs through
\* the Store and applies the auth rules of the room version.  The verdict
\* depends on event content the model does not carry, so both verdicts
\* are possible; an event whose auth events the Store does not all know
\* cannot be authorised.
CheckAuthEvents(r, n) ==
  {[authEventNIDs |-> {EventNID(a) : a \in EventNIDs(r, AuthEventIDs(n))},
    rejected |-> rej] :
     rej \in {b \in BOOLEAN : EventNIDs(r, AuthEventIDs(n)) # AuthEventIDs(n) => b}}

\* helpers.CheckForSoftFail: the same rules against the current room
\* state; both verdicts are possible.
CheckForSoftFail(r, n) == BOOLEAN

\* processRoomEvent, lines 109-137: the auth check against the declared
\* auth events, the (empty) check for missing prev events and, for
\* KindNew, the soft-fail check.
CheckAuth(c) ==
  LET l == calls[c] IN
  /\ l.pc = "checkAuth"
  /\ \E res \in CheckAuthEvents(l.room, l.id) :
       \E softfail \in IF l.kind = KindNew THEN CheckForSoftFail(l.room, l.id)
                       ELSE {FALSE} :
         calls' = [calls EXCEPT ![c] =
           [l EXCEPT !.isRejected = res.rejected,
                     !.authEventNIDs = res.authEventNIDs,
                     !.softfail = softfail,
                     !.softFailChecked = (l.kind = KindNew),
                     !.authChecked = TRUE,
                     !.pc = "storeEvent"]]
  /\ UNCHANGED <<events, snapshots, extremities, outputLog, nextCall>>

\* StopsAfterStore that takes an outlier on to the state calculation.
StopsAfterStoreNever(kind) == FALSE

\* processRoomEvent, line 157: an outlier is done once it is stored.
StopsAfterStore(kind) == kind = KindOutlier

\* processRoomEvent, lines 139-165: store the event, redact it when the
\* Store pairs it with a known redaction, return here for an outlier.
StoreEv(c) ==
  LET l == calls[c]
      r == l.room
      l0 == [l EXCEPT !.storeArg = IF l.isRejected THEN "rejected" ELSE "accepted"]
  IN
  /\ l.pc = "storeEvent"
  /\ \/ /\ calls' = [calls EXCEPT ![c] = Fail(l0, "r.DB.StoreEvent")]
        /\ UNCHANGED events
     \/ LET ev1 == StoreEvent(events, r, l.id, l.hash, l.authEventNIDs, l.isRejected)
            redactedEventID == RedactedEventID(ev1, r, l.id, l.isRejected)
            redactionEvent == RedactionEvent(ev1, r, l.id, l.isRejected)
            l1 == [l0 EXCEPT !.stored = TRUE,
                             !.snapshot = ev1[<<r, l.id>>].snapshot,
                             !.redactedEventID = redactedEventID,
                             !.redactionEvent = redactionEvent]
            redact == ~l.isRejected /\ redactedEventID = l.id
            l2 == [l1 EXCEPT !.redacted = redact]
        IN /\ events' = ev1
           /\ \/ /\ redact
                 /\ calls' = [calls EXCEPT ![c] = Fail(l1, "eventutil.RedactEvent")]
              \/ calls' = [calls EXCEPT ![c] =
                   IF StopsAfterStore(l.kind) THEN Return(l2, l.id, "nil")
                   ELSE [l2 EXCEPT !.pc = "roomInfo"]]
  /\ UNCHANGED <<snapshots, extremities, outputLog, nextCall>>

\* NeedsState that calculates the state on every call.
NeedsStateAlways(snapshot) == TRUE

\* NeedsState that takes the first snapshot NID for none.
NeedsStateUpToOne(snapshot) == snapshot <= 1

\* processRoomEvent, line 175: the state before the event is calculated
\* when StoreEvent reports no snapshot for it.
NeedsState(snapshot) == snapshot = 0

\* processRoomEvent, lines 167-175: the room's RoomInfo, and whether the
\* state before the event has yet to be calculated.
RoomInfo(c) ==
  LET l0 == calls[c]
      l == [l0 EXCEPT !.roomInfoCalled = TRUE]
  IN
  /\ l.pc = "roomInfo"
  /\ \E roomInfo \in {"ok", "nil", "err"} :
       calls' = [calls EXCEPT ![c] =
         IF roomInfo = "err" THEN Fail(l, "r.DB.RoomInfo")
         ELSE IF roomInfo = "nil" THEN Fail(l, "r.DB.RoomInfo missing")
         ELSE IF NeedsState(l.snapshot) THEN [l EXCEPT !.pc = "calculateAndSetState"]
         ELSE [l EXCEPT !.pc = "dispatch"]]
  /\ UNCHANGED <<events, snapshots, extremities, outputLog, nextCall>>

\* input.StateEventIDs: the state the caller asserts at the event.
StateEventIDs(n) == AuthEventIDs(n)

\* Store.StateEntriesForEventIDs and types.DeduplicateStateEntries.
StateEntries(r, ids) == {EventNID(a) : a \in EventNIDs(r, ids)}

\* state.CalculateAndStoreStateBeforeEvent: the entries of the state
\* before event n, resolved from its prev events.
StateBeforeEvent(r, n) == {EventNID(a) : a \in EventNIDs(r, PrevEventIDs(n))}

\* UsesSuppliedState that trusts the caller for a rejected event too.
UsesSuppliedStateIfRejected(hasState, isRejected) == hasState

\* calculateAndSetState, line 349: the state the caller supplies is used.
UsesSuppliedState(hasState, isRejected) == hasState /\ ~isRejected

\* calculateAndSetState, lines 351-359: Overwrite on the caller-supplied
\* path.  ok: GetMembershipEventNIDsForRoom returned no error; joined:
\* the local server has joined users in the room.
Overwrite(ok, joined) == IF ok THEN ~joined ELSE TRUE

\* The Store calls of calculateAndSetState, in the order it makes them.
CalcSteps(hasState, isRejected) ==
  IF UsesSuppliedState(hasState, isRejected)
  THEN <<"r.DB.StateEntriesForEventIDs", "r.DB.AddState", "r.DB.SetState">>
  ELSE <<"roomState.CalculateAndStoreStateBeforeEvent", "r.DB.SetState">>

\* processRoomEvent, line 179: an error of calculateAndSetState ends the
\* call unless the input is of KindOld.
StateErrorEndsCall(err, kind) == err # "nil" /\ kind # KindOld

\* processRoomEvent, lines 175-182, and calculateAndSetState, lines
\* 338-386.  failAt = 0: every Store call succeeds; otherwise the call
\* numbered failAt fails.
CalculateAndSetState(c) ==
  LET l == calls[c]
      r == l.room
  IN
  /\ l.pc = "calculateAndSetState"
  /\ \E hasState \in BOOLEAN, failAt \in 0..3, ok \in BOOLEAN, joined \in BOOLEAN :
       LET supplied == UsesSuppliedState(hasState, l.isRejected)
           steps == CalcSteps(hasState, l.isRejected)
           overwrite == supplied /\ Overwrite(ok, joined)
           entries == IF supplied THEN StateEntries(r, StateEventIDs(l.id))
                      ELSE StateBeforeEvent(r, l.id)
           nid == SnapshotNID(entries)
           \* the snapshot is persisted unless the call that writes it,
           \* or one before it, failed
           added == failAt = 0 \/ failAt = Len(steps)
           bound == failAt = 0
           err == IF failAt = 0 THEN "nil" ELSE steps[failAt]
           l1 == [l EXCEPT !.hasState = hasState, !.overwrite = overwrite,
                           !.statePath = IF supplied THEN "supplied"
                                         ELSE "calculated",
                           !.joined = joined, !.memberErr = ~ok,
                           !.snapshot = IF added THEN nid ELSE 0,
                           !.stateErr = (err # "nil"),
                           !.failed = @ \/ (err # "nil")]
       IN /\ failAt <= Len(steps)
          /\ ~supplied => (ok /\ ~joined)
          /\ snapshots' = IF added THEN snapshots \cup {nid} ELSE snapshots
          /\ events' = IF bound
                       THEN [events EXCEPT ![<<r, l.id>>].snapshot = nid,
                                           ![<<r, l.id>>].bindings = @ + 1]
                       ELSE events
          /\ calls' = [calls EXCEPT ![c] =
               IF StateErrorEndsCall(err, l.kind) THEN Fail(l1, err)
               ELSE [l1 EXCEPT !.pc = "dispatch"]]
  /\ UNCHANGED <<extremities, outputLog, nextCall>>

\* One entry of the output log.  redacted: the entry carries the redacted
\* projection of the event; because: RedactedBecause, 0 for none.
Output(type, n, redacted, c) ==
  [type |-> type, id |-> n, redacted |-> redacted, call |-> c, because |-> 0]

\* api.OutputRedactedEvent: RedactedEventID and RedactedBecause.
OutputRedactedEvent(redactedEventID, redactionEvent, c) ==
  [Output("RedactedEvent", redactedEventID, FALSE, c)
     EXCEPT !.because = redactionEvent]

\* Inputer.WriteOutputEvents: the sink appends to the log of the room.
WriteOutputEvents(log, r, entry) == [log EXCEPT ![r] = Append(@, entry)]

\* Inputer.updateLatestEvents: the new forward extremities of the room.
UpdateLatestEvents(ext, r, n) ==
  [ext EXCEPT ![r] = (@ \ PrevEventIDs(n)) \cup {n}]

\* StopsAfterState that lets a rejected event through.
StopsAfterStateSoftfailOnly(isRejected, softfail) == softfail

\* StopsAfterState that lets a soft-failed event through.
StopsAfterStateRejectedOnly(isRejected, softfail) == isRejected

\* processRoomEvent, line 185: the call stops after the state has been
\* stored.
StopsAfterState(isRejected, softfail) == isRejected \/ softfail

\* RejectionErr that drops the rejection error.
RejectionErrNil(isRejected) == "nil"

\* processRoomEvent, line 193: the error returned for such an event.
RejectionErr(isRejected) == IF isRejected THEN "rejectionErr" ELSE "nil"

\* UpdatesLatestEvents that treats a backfilled event as a new one.
UpdatesLatestEventsOldToo(kind) == kind \in {KindNew, KindOld}

\* processRoomEvent, lines 196-197: the forward extremities are updated
\* for KindNew.
UpdatesLatestEvents(kind) == kind = KindNew

\* processRoomEvent, lines 184-221: stop for a rejected or soft-failed
\* event, otherwise update the forward extremities (KindNew) or write the
\* OldRoomEvent (KindOld).
Dispatch(c) ==
  LET l == calls[c]
      r == l.room
  IN
  /\ l.pc = "dispatch"
  /\ IF StopsAfterState(l.isRejected, l.softfail)
     THEN /\ calls' = [calls EXCEPT ![c] =
               Return(l, l.id, RejectionErr(l.isRejected))]
          /\ UNCHANGED <<extremities, outputLog>>
     ELSE \E ok \in BOOLEAN :
            IF ~ok
            THEN /\ calls' = [calls EXCEPT ![c] =
                      Fail(l, IF UpdatesLatestEvents(l.kind)
                              THEN "r.updateLatestEvents"
                              ELSE "r.WriteOutputEvents (old)")]
                 /\ UNCHANGED <<extremities, outputLog>>
            ELSE /\ calls' = [calls EXCEPT ![c].pc = "redaction"]
                 /\ IF UpdatesLatestEvents(l.kind)
                    THEN /\ extremities' = UpdateLatestEvents(extremities, r, l.id)
                         /\ outputLog' = WriteOutputEvents(outputLog, r,
                              Output("NewRoomEvent", l.id, l.redacted, c))
                    ELSE /\ UNCHANGED extremities
                         \* OldRoomEvent carries headered, the event as it
                         \* came in
                         /\ outputLog' = WriteOutputEvents(outputLog, r,
                              Output("OldRoomEvent", l.id, FALSE, c))
  /\ UNCHANGED <<events, snapshots, nextCall>>

\* NotifiesRedaction that never tells downstream.
NotifiesRedactionNever(redactedEventID) == FALSE

\* processRoomEvent, line 227: storing the event paired a redaction with
\* its target.
NotifiesRedaction(redactedEventID) == redactedEventID # 0

\* processRoomEvent, lines 223-243: tell downstream about the redaction.
Redaction(c) ==
  LET l == calls[c]
      r == l.room
  IN
  /\ l.pc = "redaction"
  /\ IF NotifiesRedaction(l.redactedEventID)
     THEN \E ok \in BOOLEAN :
            IF ~ok
            THEN /\ calls' = [calls EXCEPT ![c] =
                      Fail(l, "r.WriteOutputEvents (redactions)")]
                 /\ UNCHANGED outputLog
            ELSE /\ calls' = [calls EXCEPT ![c] = Return(l, l.id, "nil")]
                 /\ outputLog' = WriteOutputEvents(outputLog, r,
                      OutputRedactedEvent(l.redactedEventID, l.redactionEvent, c))
     ELSE /\ calls' = [calls EXCEPT ![c] = Return(l, l.id, "nil")]
          /\ UNCHANGED outputLog
  /\ UNCHANGED <<events, snapshots, extremities, nextCall>>

Next ==
  \E c \in Calls :
    \/ Process(c)
    \/ Dedup(c)
    \/ MissingAuth(c)
    \/ FedQuery(c)
    \/ FedLoop(c)
    \/ CheckAuth(c)
    \/ StoreEv(c)
    \/ RoomInfo(c)
    \/ CalculateAndSetState(c)
    \/ Dispatch(c)
    \/ Redaction(c)

Spec == Init /\ [][Next]_vars

NextRooms ==
  \E c \in Calls :
    \/ ProcessInRoom(c)
    \/ Dedup(c)
    \/ MissingAuth(c)
    \/ FedQuery(c)
    \/ FedLoop(c)
    \/ CheckAuth(c)
    \/ StoreEv(c)
    \/ RoomInfo(c)
    \/ CalculateAndSetState(c)
    \/ Dispatch(c)
    \/ Redaction(c)

\* The calls of a room one at a time, the rooms side by side.
SpecRooms == Init /\ [][NextRooms]_vars

\* ================================================================ claims
Active(c) == calls[c].pc \notin {"none", "retired"}
Done(c) == calls[c].pc = "done"
Row(c) == events[<<calls[c].room, calls[c].id>>]

\* The positions of the output entries call c has written.
OutputsOf(c) ==
  {i \in DOMAIN outputLog[calls[c].room] : outputLog[calls[c].room][i].call = c}

\* ---------------------------------------------------------------- C1
\* C1: in a call of KindNew or KindOld whose check against the declared
\* auth events fails, StoreEvent is given rejected = true, the forward
\* extremities of the room stay what they were when the call began and
\* the call writes no output entry; when no Store call of it fails the
\* call has stored the event.
C1_RejectedIsStoredOnly ==
  \A c \in Calls :
    LET l == calls[c] IN
    (Active(c) /\ l.kind \in {KindNew, KindOld} /\ l.isRejected) =>
      /\ l.storeArg \in {"none", "rejected"}
      /\ extremities[l.room] = l.ext0
      /\ OutputsOf(c) = {}
      /\ (Done(c) /\ ~l.failed) => (l.stored /\ l.storeArg = "rejected")

C1_Witness ==
  \E c \in Calls :
    /\ Done(c) /\ calls[c].kind = KindNew /\ calls[c].isRejected
    /\ ~calls[c].failed /\ calls[c].stored /\ Row(c).rejected
    /\ calls[c].ext0 # {}

\* ---------------------------------------------------------------- C2
\* C2 as claimed: for every Kind, a call that rejects the event and stores
\* it returns the event's ID with a non-nil error.
C2_RejectedReturnsErrorAnyKind ==
  \A c \in Calls :
    LET l == calls[c] IN
    (Done(c) /\ l.isRejected /\ l.stored) =>
      (l.retID = l.id /\ l.retErr # "nil")

\* C2 amended: a call of KindNew or KindOld that rejects the event and
\* stores it never returns a nil error; it returns the event's ID with
\* the rejection error, or no ID with the error of a later Store call
\* that failed.  A call of KindOutlier returns the event's ID and nil.
C2_RejectedReturnsErrorNewOld ==
  \A c \in Calls :
    LET l == calls[c] IN
    (Done(c) /\ l.isRejected /\ l.stored) =>
      IF l.kind = KindOutlier
      THEN l.retID = l.id /\ l.retErr = "nil"
      ELSE /\ l.retErr # "nil"
           /\ \/ l.retID = l.id /\ l.retErr = "rejectionErr"
              \/ l.retID = 0 /\ l.failed /\ l.retErr # "rejectionErr"
           /\ ~l.failed => l.retID = l.id

C2_Witness ==
  \E c \in Calls :
    /\ Done(c) /\ calls[c].kind = KindOld /\ calls[c].isRejected
    /\ calls[c].stored /\ calls[c].retID = calls[c].id
    /\ calls[c].retErr = "rejectionErr"

\* ---------------------------------------------------------------- C3
\* C3: in a call of KindNew whose event passes the check against the
\* declared auth events and is soft-failed, StoreEvent is given
\* rejected = false, the forward extremities stay what they were, the call
\* writes no output entry and, when no Store call of it fails, it has
\* stored the event and returns (event ID, nil).  The soft-fail check is
\* not run for KindOld and KindOutlier.
C3_SoftFailedIsStoredOnly ==
  \A c \in Calls :
    LET l == calls[c] IN
    /\ (Active(c) /\ l.kind = KindNew /\ ~l.isRejected /\ l.softfail) =>
         /\ l.storeArg \in {"none", "accepted"}
         /\ extremities[l.room] = l.ext0
         /\ OutputsOf(c) = {}
         /\ (Done(c) /\ ~l.failed) =>
              (l.stored /\ Row(c).stored /\ l.retID = l.id /\ l.retErr = "nil")
    /\ (Active(c) /\ l.kind # KindNew) => (~l.softFailChecked /\ ~l.softfail)

C3_Witness ==
  \E c \in Calls :
    /\ Done(c) /\ calls[c].kind = KindNew /\ ~calls[c].isRejected
    /\ calls[c].softfail /\ calls[c].stored /\ calls[c].retID = calls[c].id
    /\ calls[c].retErr = "nil" /\ calls[c].ext0 # {}

\* ---------------------------------------------------------------- C4
\* The reference hashes agree, or the ID format makes them agree.
SameEvent(c) ==
  \/ EventIDFormat(RoomVersion(calls[c].room)) # "EventIDFormatV1"
  \/ calls[c].hash = Row(c).hash

\* What C4 says of a call apart from when it is skipped: a skipped call
\* returns (event ID, nil) and has made neither a federation query nor a
\* StoreEvent, a call that is not skipped goes on to StoreEvent unless a
\* call of the ingest fails, and only outliers are skipped.
C4_SkipIsClean ==
  \A c \in Calls :
    LET l == calls[c] IN
    /\ l.skipped =>
         /\ l.kind = KindOutlier /\ l.known0 /\ Done(c)
         /\ l.retID = l.id /\ l.retErr = "nil"
         /\ ~l.fedQueried /\ l.storeArg = "none" /\ ~l.stored
    /\ (Done(c) /\ ~l.skipped /\ ~l.failed) => l.stored

RECURSIVE Ancestors(_)
Ancestors(n) ==
  AuthEventIDs(n) \cup UNION {Ancestors(a) : a \in AuthEventIDs(n)}

\* C5: while the resolver walks the events a peer returned, every
\* returned ancestor of an event it has passed to StoreEvent has been
\* passed to StoreEvent too, and the StoreEvent of the incoming event
\* comes after the resolver has passed on every returned event.
C5_AncestorsStoredFirst ==
  \A c \in Calls :
    LET l == calls[c] IN
    /\ l.pc = "fedLoop" =>
         /\ \A x \in l.fedStored : \A y \in l.fedEvents :
              y \in Ancestors(x) => y \in l.fedStored
         /\ l.storeArg = "none"
    /\ l.storeArg # "none" => l.fedLeft = 0

C5_Witness ==
  \E c \in Calls :
    /\ calls[c].pc = "fedLoop" /\ calls[c].id = 2
    /\ calls[c].fedStored = {1, 3} /\ calls[c].fedQueue = <<>>
    /\ IsStored(1, 1) /\ IsStored(1, 3)

\* ---------------------------------------------------------------- C6
\* C6 as claimed: the resolver never passes to StoreEvent a returned
\* event one of whose auth events is in neither the cache nor the Store.
C6_IncompleteChainAborts ==
  \A c \in Calls : ~calls[c].fedMissing

\* ---------------------------------------------------------------- C7
\* C7 as claimed: every auth event of a stored event is stored.
C7_AuthClosure ==
  \A r \in Rooms, n \in EventIDs :
    IsStored(r, n) => \A a \in AuthEventIDs(n) : IsStored(r, a)

\* ---------------------------------------------------------------- C8
\* C8 as claimed: a call of KindNew or KindOld that returns with success
\* or has written an output entry leaves the event with a state snapshot
\* or flagged rejected, and no NewRoomEvent or OldRoomEvent is in the log
\* for an event without a state snapshot.
C8_StateBeforeOutput ==
  /\ \A c \in Calls :
       LET l == calls[c] IN
       (Done(c) /\ l.kind \in {KindNew, KindOld}
          /\ (l.retErr = "nil" \/ OutputsOf(c) # {})) =>
         (Row(c).stored /\ (Row(c).snapshot # 0 \/ Row(c).rejected))
  /\ \A r \in Rooms : \A i \in DOMAIN outputLog[r] :
       outputLog[r][i].type \in {"NewRoomEvent", "OldRoomEvent"} =>
         events[<<r, outputLog[r][i].id>>].snapshot # 0

\* ---------------------------------------------------------------- C9
\* C9 as claimed: a call that has written an output entry has stored the
\* event and every state snapshot write it made has succeeded.
C9_StoreBeforeNotify ==
  \A c \in Calls :
    LET l == calls[c] IN
    (Active(c) /\ OutputsOf(c) # {}) => (l.stored /\ ~l.stateErr)

Variants == {"NewRoomEvent", "OldRoomEvent", "RedactedEvent"}

\* The rows of room r as a function of the event ID.
RowsOf(r) == [n \in EventIDs |-> events[<<r, n>>]]

\* Call c is given an event that has been through Process before: it is
\* stored with all its auth events and, unless it is an outlier, its state
\* is bound.
ProcessedBefore(c) ==
  LET l == calls[c] IN
  /\ l.known0
  /\ \A a \in AuthEventIDs(l.id) : l.events0[a].stored
  /\ l.kind # KindOutlier => l.events0[l.id].snapshot # 0

\* Such a call changes no row and no snapshot of the Store, and leaves the
\* forward extremities as they are when the event is one of them already
\* and none of its prev events is.
C11_StoreUnchanged ==
  \A c \in Calls :
    LET l == calls[c] IN
    (Active(c) /\ ProcessedBefore(c)) =>
      /\ RowsOf(l.room) = l.events0
      /\ snapshots = l.snapshots0
      /\ extremities[l.room] \in {l.ext0, (l.ext0 \ PrevEventIDs(l.id)) \cup {l.id}}
      /\ (l.id \in l.ext0 /\ PrevEventIDs(l.id) \cap l.ext0 = {}) =>
           extremities[l.room] = l.ext0

\* C11 as claimed: processing an event again leaves the Store as it is and
\* the output log of a room holds at most one entry of each variant for
\* an event.
C11_IdempotentOneEntryPerEvent ==
  /\ C11_StoreUnchanged
  /\ \A r \in Rooms, n \in EventIDs, t \in Variants :
       Cardinality({i \in DOMAIN outputLog[r] :
                      outputLog[r][i].type = t /\ outputLog[r][i].id = n}) <= 1

\* C11 amended: processing an event again leaves the Store as it is, and
\* every call writes at most one entry of each variant; a call that
\* processes an event again writes its entries again.
C11_IdempotentOneEntryPerCall ==
  /\ C11_StoreUnchanged
  /\ \A r \in Rooms, c \in Calls, t \in Variants :
       Cardinality({i \in DOMAIN outputLog[r] :
                      outputLog[r][i].type = t /\ outputLog[r][i].call = c}) <= 1

C11_Witness ==
  \E c \in Calls :
    LET l == calls[c] IN
    /\ Done(c) /\ ~l.failed /\ ProcessedBefore(c) /\ l.kind = KindNew
    /\ l.id \in l.ext0 /\ l.retErr = "nil"
    /\ Cardinality({i \in DOMAIN outputLog[l.room] :
                      outputLog[l.room][i].type = "NewRoomEvent"
                      /\ outputLog[l.room][i].id = l.id}) = 2

\* ---------------------------------------------------------------- C12
\* The positions of the entries of the given variants call c has written.
EntriesOf(c, types) ==
  {i \in OutputsOf(c) : outputLog[calls[c].room][i].type \in types}

\* C12: a call of KindNew or KindOld writes at most one RedactedEvent
\* entry; the entry carries the redactedEventID and the redaction event
\* StoreEvent reported, both events are stored, the call has judged its
\* event neither rejected nor soft-failed and the entry comes after the
\* NewRoomEvent or OldRoomEvent of the call; a call that returns with
\* success for such an event has written the entry exactly when StoreEvent
\* reported a redactedEventID.
C12_RedactionNotified ==
  \A c \in Calls :
    LET l == calls[c]
        log == outputLog[l.room]
        red == EntriesOf(c, {"RedactedEvent"})
        main == EntriesOf(c, {"NewRoomEvent", "OldRoomEvent"})
    IN
    (Active(c) /\ l.kind \in {KindNew, KindOld}) =>
      /\ Cardinality(red) <= 1
      /\ \A i \in red :
           /\ l.stored /\ ~l.isRejected /\ ~l.softfail
           /\ l.redactedEventID # 0
           /\ log[i].id = l.redactedEventID
           /\ log[i].because = l.redactionEvent
           /\ Redacts(log[i].because) = log[i].id
           /\ IsStored(l.room, log[i].id) /\ IsStored(l.room, log[i].because)
           /\ \E j \in main : j < i
      /\ (Done(c) /\ l.retErr = "nil" /\ ~l.isRejected /\ ~l.softfail) =>
           /\ Cardinality(main) = 1
           /\ (l.redactedEventID # 0 <=> red # {})

\* The redaction is stored first and the event it redacts is processed
\* after it.
C12_Witness ==
  \E c \in Calls :
    LET l == calls[c] IN
    /\ Done(c) /\ l.retErr = "nil" /\ l.kind = KindOld
    /\ l.redactedEventID = l.id /\ l.redactionEvent = 3
    /\ EntriesOf(c, {"RedactedEvent"}) # {}

\* ---------------------------------------------------------------- C13
\* Call c has not had its own StoreEvent succeed.
BeforeStoreEvent(c) == Active(c) /\ ~calls[c].skipped /\ ~calls[c].stored

\* The event IDs whose row is not what it was when call c began.
ChangedRows(c) ==
  {n \in EventIDs : events[<<calls[c].room, n>>] # calls[c].events0[n]}

\* C13 as claimed: a call that fails before its own StoreEvent has
\* succeeded leaves the Store exactly as it was.
C13_NoEffectBeforeStoreEvent ==
  \A c \in Calls :
    LET l == calls[c] IN
    (BeforeStoreEvent(c) /\ Done(c) /\ l.retErr # "nil") =>
      /\ ChangedRows(c) = {}
      /\ snapshots = l.snapshots0
      /\ extremities[l.room] = l.ext0

\* C13 amended: until its own StoreEvent has succeeded, and so when it
\* fails before that, a call writes no
\* state snapshot, no extremity and no output entry; the rows it has
\* written are rows of events the Store did not know, written by the
\* resolver after its federation query as not rejected and without state.
C13_OnlyResolverWritesBeforeStoreEvent ==
  \A c \in Calls :
    LET l == calls[c] IN
    BeforeStoreEvent(c) =>
      /\ snapshots = l.snapshots0
      /\ extremities[l.room] = l.ext0
      /\ OutputsOf(c) = {}
      /\ \A n \in ChangedRows(c) :
           LET row == events[<<l.room, n>>] IN
           /\ l.fedQueries = 1
           /\ l.retErr # "r.FSAPI.QueryEventAuthFromFederation"
           /\ ~l.events0[n].stored
           /\ row.stored /\ ~row.rejected /\ row.snapshot = 0

\* The resolver has stored an event of the peer and the call fails on the
\* next one.
C13_Witness ==
  \E c \in Calls :
    LET l == calls[c] IN
    /\ Done(c) /\ BeforeStoreEvent(c) /\ l.storeArg = "none"
    /\ l.retErr \in {"r.DB.EventNIDs", "r.DB.StoreEvent"}
    /\ l.fedLeft > 0
    /\ ChangedRows(c) # {}

\* ---------------------------------------------------------------- C14
\* A Store operation of call c has failed: EventsFromIDs in the dedup,
\* GetMembershipEventNIDsForRoom, a Store call of the state calculation,
\* or one whose error the call has returned.
StoreErrors ==
  {"r.DB.EventNIDs", "r.DB.StoreEvent", "r.DB.RoomInfo",
   "r.DB.StateEntriesForEventIDs", "r.DB.AddState", "r.DB.SetState",
   "roomState.CalculateAndStoreStateBeforeEvent"}

StoreOpFailed(c) ==
  \/ calls[c].dedupErr
  \/ calls[c].memberErr
  \/ calls[c].stateErr
  \/ calls[c].retErr \in StoreErrors

\* C14 as claimed: a call one of whose Store operations has failed has
\* returned an error, and has changed no extremity and written no output
\* entry.
C14_StoreErrorsSurfaced ==
  \A c \in Calls :
    LET l == calls[c] IN
    (Active(c) /\ StoreOpFailed(c)) =>
      /\ Done(c) /\ l.retErr # "nil" /\ l.retID = 0
      /\ extremities[l.room] = l.ext0
      /\ OutputsOf(c) = {}

\* ---------------------------------------------------------------- C15
\* A stored event of room r lists n among its prev events.
HasKnownChild(r, n) ==
  \E x \in EventIDs : IsStored(r, x) /\ n \in PrevEventIDs(x)

\* Call c has returned with success for an event of KindNew or KindOld that
\* it judged neither rejected nor soft-failed.
Accepted(c) ==
  LET l == calls[c] IN
  /\ Done(c) /\ l.retErr = "nil" /\ l.kind \in {KindNew, KindOld}
  /\ l.stored /\ ~l.isRejected /\ ~l.softfail

\* The forward extremities after the updater has run for event n.
Updated(ext0, n) == (ext0 \ PrevEventIDs(n)) \cup {n}

\* C15 as claimed: a forward extremity is a stored event that is not
\* rejected and has no known child, and an event that a call of KindNew or
\* KindOld has accepted and that has no known child is a forward extremity.
C15_ExtremitiesExact ==
  /\ \A r \in Rooms : \A n \in extremities[r] :
       IsStored(r, n) /\ ~events[<<r, n>>].rejected /\ ~HasKnownChild(r, n)
  /\ \A c \in Calls :
       LET l == calls[c] IN
       (Accepted(c) /\ ~Row(c).rejected /\ ~HasKnownChild(l.room, l.id)) =>
         l.id \in extremities[l.room]

\* C15 amended: a forward extremity is a stored event; only a call of
\* KindNew that judges its event neither rejected nor soft-failed changes
\* the forward extremities, to the old ones less the prev events of the
\* event plus the event, and such a call that returns with success has
\* done so.
C15_ExtremitiesByNewOnly ==
  /\ \A r \in Rooms : \A n \in extremities[r] : IsStored(r, n)
  /\ \A c \in Calls :
       LET l == calls[c] IN
       Active(c) =>
         /\ \/ extremities[l.room] = l.ext0
            \/ /\ l.kind = KindNew /\ l.stored /\ ~l.isRejected /\ ~l.softfail
               /\ extremities[l.room] = Updated(l.ext0, l.id)
         /\ (Accepted(c) /\ l.kind = KindNew) =>
              extremities[l.room] = Updated(l.ext0, l.id)

\* A new event takes the place of its prev event.
C15_Witness ==
  \E c \in Calls :
    LET l == calls[c] IN
    /\ Accepted(c) /\ l.kind = KindNew
    /\ l.ext0 \cap PrevEventIDs(l.id) # {}
    /\ extremities[l.room] = {l.id}

\* ---------------------------------------------------------------- C16
\* C16: a call of KindOutlier makes no RoomInfo lookup and no state
\* calculation, changes no extremity, writes no output entry and has
\* returned once its StoreEvent has succeeded; a call of KindOld never
\* changes the extremities and never writes a NewRoomEvent, and one that
\* returns with success for an accepted event has written exactly one
\* OldRoomEvent; a call of KindNew never writes an OldRoomEvent, and one
\* that returns with success for an accepted event has updated the
\* extremities once and written exactly one NewRoomEvent.
C16_DispatchByKind ==
  \A c \in Calls :
    LET l == calls[c]
        new == EntriesOf(c, {"NewRoomEvent"})
        old == EntriesOf(c, {"OldRoomEvent"})
    IN
    Active(c) =>
      /\ l.kind = KindOutlier =>
           /\ ~l.roomInfoCalled /\ l.statePath = "none"
           /\ extremities[l.room] = l.ext0
           /\ OutputsOf(c) = {}
           /\ l.stored =>
                /\ Done(c)
                /\ \/ l.retID = l.id /\ l.retErr = "nil"
                   \/ l.retID = 0 /\ l.retErr = "eventutil.RedactEvent"
      /\ l.kind = KindOld =>
           /\ extremities[l.room] = l.ext0
           /\ new = {}
           /\ Cardinality(old) <= 1
           /\ Accepted(c) => Cardinality(old) = 1
      /\ l.kind = KindNew =>
           /\ old = {}
           /\ Cardinality(new) <= 1
           /\ Accepted(c) =>
                /\ Cardinality(new) = 1
                /\ extremities[l.room] = Updated(l.ext0, l.id)

\* An outlier the Store did not know is accepted and stored.
C16_Witness ==
  \E c \in Calls :
    LET l == calls[c] IN
    /\ Done(c) /\ l.kind = KindOutlier /\ ~l.known0 /\ l.stored
    /\ ~l.isRejected /\ AuthEventIDs(l.id) # {}
    /\ l.retID = l.id /\ l.retErr = "nil"
    /\ Row(c).snapshot = 0

\* ---------------------------------------------------------------- C17
\* C17 as claimed: when StoreEvent reports the event of the call as the
\* target of a known redaction, the NewRoomEvent or OldRoomEvent the call
\* writes carries the redacted projection of the event.
C17_OutputsCarryRedacted ==
  \A c \in Calls :
    LET l == calls[c] IN
    (Active(c) /\ l.stored /\ ~l.isRejected /\ l.redactedEventID = l.id) =>
      \A i \in EntriesOf(c, {"NewRoomEvent", "OldRoomEvent"}) :
        outputLog[l.room][i].redacted

\* ---------------------------------------------------------------- C18
\* C18 without the condition of Overwrite: the state the caller supplies
\* is used exactly when HasState is set and the event is not rejected, the
\* snapshot stored is that of the supplied state events on that path and
\* that of the state calculated from the prev events on the other, where
\* Overwrite is false.
C18_PathByHasState ==
  \A c \in Calls :
    LET l == calls[c] IN
    (Active(c) /\ l.statePath # "none") =>
      /\ l.statePath = "supplied" <=> (l.hasState /\ ~l.isRejected)
      /\ (l.statePath = "supplied" /\ l.snapshot # 0) =>
           l.snapshot = SnapshotNID(StateEntries(l.room, StateEventIDs(l.id)))
      /\ l.statePath = "calculated" =>
           /\ ~l.overwrite
           /\ l.snapshot # 0 =>
                l.snapshot = SnapshotNID(StateBeforeEvent(l.room, l.id))

FedError == "r.FSAPI.QueryEventAuthFromFederation"

\* C19: a call asks the federation API at most once, and only when the
\* Store does not know one of the auth events of its event; a call whose
\* query fails has returned that error and no event ID, has not checked
\* the auth of its event, has passed nothing to StoreEvent and has written
\* no output entry.
C19_FederationUse ==
  \A c \in Calls :
    LET l == calls[c] IN
    Active(c) =>
      /\ l.fedQueries <= 1
      /\ l.fedQueries > 0 =>
           \E a \in AuthEventIDs(l.id) : ~l.events0[a].stored
      /\ l.retErr = FedError =>
           /\ Done(c) /\ l.retID = 0 /\ l.fedQueries = 1
           /\ ~l.authChecked /\ ~l.softFailChecked
           /\ l.storeArg = "none" /\ ~l.stored
           /\ ChangedRows(c) = {}
           /\ OutputsOf(c) = {}

\* One auth event of event 2 is known, the other is not, and the query
\* for it fails.
C19_Witness ==
  \E c \in Calls :
    LET l == calls[c] IN
    /\ Done(c) /\ l.retErr = FedError /\ l.id = 2
    /\ l.events0[1].stored /\ ~l.events0[3].stored

\* ---------------------------------------------------------------- C20
\* C20: SetState has succeeded at most once for an event, and exactly for
\* the events that have a state snapshot; a call calculates the state of
\* its event only when the event had no snapshot, and a snapshot that was
\* bound when a call began is the snapshot of the event ever after.
C20_StateBoundOnce ==
  /\ \A r \in Rooms, n \in EventIDs :
       LET row == events[<<r, n>>] IN
       /\ row.bindings <= 1
       /\ row.bindings = 1 <=> row.snapshot # 0
  /\ \A c \in Calls :
       LET l == calls[c] IN
       Active(c) =>
         /\ l.statePath # "none" => l.events0[l.id].snapshot = 0
         /\ \A n \in EventIDs :
              l.events0[n].snapshot # 0 =>
                /\ events[<<l.room, n>>].snapshot = l.events0[n].snapshot
                /\ events[<<l.room, n>>].bindings = l.events0[n].bindings
         /\ l.events0[l.id].snapshot # 0 =>
              /\ l.statePath = "none"
              /\ l.stored => l.snapshot = l.events0[l.id].snapshot

\* The event is processed again after its state has been bound, and the
\* call gets past the state calculation.
C20_Witness ==
  \E c \in Calls :
    LET l == calls[c] IN
    /\ l.pc \in {"dispatch", "redaction", "done"} /\ l.roomInfoCalled
    /\ l.retErr = "nil"
    /\ l.events0[l.id].snapshot # 0 /\ l.statePath = "none"
    /\ Row(c).bindings = 1
====
